---- MODULE Spec2Model ----
(***************************************************************************)
(* Short-term memory window of astrbot.core.memory: the window operations  *)
(* of short_term.py, the Mem0 bridge of mem0_bridge.py, and the per-turn   *)
(* cycle load -> append -> slide -> add -> remove -> save run by           *)
(* concurrent asyncio tasks.                                               *)
(*                                                                         *)
(* Spec      concurrent turn cycles of two tasks                           *)
(* SpecFn    one window operation on an arbitrary window or file           *)
(* SpecOps   the window operations in any order from the empty window      *)
(* SpecSave  save_window step by step, with the failures of _save_sync     *)
(* SpecLock  _get_session_lock statement by statement, from two threads    *)
(* SpecLive  sequential turn cycles of one session that keep arriving      *)
(***************************************************************************)
EXTENDS Integers, Sequences, FiniteSets, TLC

VARIABLES pc, sess, text, now, cap, window, batch, ok, call, exc, warned,
          running, disk, SESSION_LOCKS, made, held, mem0_config,
          mem0_instance, mem, clock, turns, removed, given, guard, lock,
          _ACTIVE_MAX

vars == <<pc, sess, text, now, cap, window, batch, ok, call, exc, warned,
          running, disk, SESSION_LOCKS, made, held, mem0_config,
          mem0_instance, mem, clock, turns, removed, given, guard, lock,
          _ACTIVE_MAX>>

(***************************************************************************)
(* Bounds                                                                  *)
(***************************************************************************)
\* number of turn cycles started in one behaviour
MaxTurns == 2
\* number of distinct instants datetime.now() returns
MaxClock == 2
\* longest window drawn as an input of the window operations
MaxLen == 3
\* lock objects created per session id
MaxLocks == 2

\* largest capacity passed as active_max
MaxCap == 2

Tasks == {"task1", "task2"}
NoTask == "none"

\* user texts of the windows the operations are applied to
Users == {"u1", "u2"}
\* user texts the host supplies to the concurrent turns (entries of one
\* session then differ, or coincide, by their timestamps)
TurnUsers == {"u1"}
Assistants == {"a1"}
Capacities == 0..MaxCap

\* session ids are strings, modelled as sequences of characters
SidColon == <<"a", ":">>
SidUnder == <<"a", "_">>
SidOther == <<"b">>
Sessions == {SidColon, SidUnder, SidOther}
\* the sessions whose turns the concurrent tasks process: two ids with two
\* locks and, after _path, one file
TurnSessions == {SidColon, SidUnder}

\* str.isalnum() on the characters used by the session ids
IsAlnum(c) == c \in {"a", "b"}

\* datetime.now(timezone.utc).isoformat() of instant n
Iso(n) == "T" \o ToString(n)

(***************************************************************************)
(* models.py                                                               *)
(***************************************************************************)
TagType == {"active", "pending"}

ShortTermEntry(tag, u, a, ts) ==
    [tag |-> tag, user |-> u, assistant |-> a, timestamp |-> ts]

\* the (user, assistant, timestamp) tuple remove_pending_after_add compares
Ident(e) == <<e.user, e.assistant, e.timestamp>>

pending_count(entries) ==
    Len(SelectSeq(entries, LAMBDA e : e.tag = "pending"))

ActiveCount(entries) ==
    Len(SelectSeq(entries, LAMBDA e : e.tag = "active"))

PendingOf(entries) == SelectSeq(entries, LAMBDA e : e.tag = "pending")

(***************************************************************************)
(* JSON values, as json.dump writes and json.load returns them             *)
(***************************************************************************)
JStr(s) == [j |-> "str", p |-> s]
JNum(n) == [j |-> "num", p |-> n]
JList(s) == [j |-> "list", p |-> s]
JObj(f) == [j |-> "obj", p |-> f]

\* the state of one file: missing, not parseable as JSON, or a JSON document
NoFile == [k |-> "absent", v |-> JNum(0)]
Garbage == [k |-> "garbage", v |-> JNum(0)]
JsonFile(v) == [k |-> "json", v |-> v]

\* dict.get(key, default)
Get(d, key, default) == IF key \in DOMAIN d THEN d[key] ELSE default

(***************************************************************************)
(* short_term.py: persistence                                              *)
(***************************************************************************)
\* "".join(c if c.isalnum() or c in "-_" else "_" for c in session_id)
_path(session_id) ==
    [i \in DOMAIN session_id |->
        IF IsAlnum(session_id[i]) \/ session_id[i] \in {"-", "_"}
        THEN session_id[i] ELSE "_"]

Paths == {_path(s) : s \in Sessions}

\* a serialisation that leaves the tag out
_entry_to_dict_NoTag(e) ==
    [user |-> JStr(e.user), assistant |-> JStr(e.assistant),
     timestamp |-> JStr(e.timestamp)]

_entry_to_dict(e) ==
    [tag |-> JStr(e.tag), user |-> JStr(e.user),
     assistant |-> JStr(e.assistant), timestamp |-> JStr(e.timestamp)]

\* a loader that forgets the stored tag
_dict_to_entry_ActiveTag(d) ==
    ShortTermEntry("active",
                   Get(d, "user", JStr("")).p,
                   Get(d, "assistant", JStr("")).p,
                   Get(d, "timestamp", JStr("")).p)

_dict_to_entry(d) ==
    ShortTermEntry(Get(d, "tag", JStr("active")).p,
                   Get(d, "user", JStr("")).p,
                   Get(d, "assistant", JStr("")).p,
                   Get(d, "timestamp", JStr("")).p)

\* open(p, "w"): whatever the file held is gone, and until json.dump is through
\* it holds no complete document
open_w(file) == Garbage

\* the document _save_sync hands to json.dump
SavedDoc(session_id, entries) ==
    JObj([session_id |-> JStr(session_id),
          entries |-> JList([i \in DOMAIN entries |-> JObj(_entry_to_dict(entries[i]))])])

\* the body of load_window under the lock: the returned entries, the
\* exception that escapes (if any) and whether the warning was logged
load_window(file) ==
    IF file.k = "absent"
    THEN [entries |-> <<>>, exc |-> "none", warned |-> FALSE]
    ELSE IF file.k = "garbage"
    THEN [entries |-> <<>>, exc |-> "none", warned |-> TRUE]
    ELSE LET data == file.v IN
      IF data.j # "obj"
      THEN [entries |-> <<>>, exc |-> "AttributeError", warned |-> FALSE]
      ELSE LET es == Get(data.p, "entries", JList(<<>>)) IN
        IF es.j # "list"
        THEN [entries |-> <<>>, exc |-> "TypeError", warned |-> FALSE]
        ELSE IF \E i \in DOMAIN es.p : es.p[i].j # "obj"
        THEN [entries |-> <<>>, exc |-> "AttributeError", warned |-> FALSE]
        ELSE [entries |-> [i \in DOMAIN es.p |-> _dict_to_entry(es.p[i].p)],
              exc |-> "none", warned |-> FALSE]

(***************************************************************************)
(* short_term.py: window operations                                        *)
(***************************************************************************)
ActiveIndices(entries) ==
    SelectSeq([i \in DOMAIN entries |-> i], LAMBDA i : entries[i].tag = "active")

\* a strict comparison in place of <=
WithinCapacity_Strict(n_active, active_max) == n_active < active_max

\* len(active_indices) <= active_max: nothing to evict
WithinCapacity(n_active, active_max) == n_active <= active_max

\* an eviction count short by one
to_mark_count_OffByOne(n_active, active_max) == n_active - active_max - 1

to_mark_count(n_active, active_max) == n_active - active_max

\* a loop that reclassifies the newest active entries
MarkedIndices_Newest(active_indices, count) ==
    {active_indices[Len(active_indices) - i + 1] : i \in 1..count}

\* the indices the loop "for i in range(to_mark_count)" reclassifies
MarkedIndices(active_indices, count) == {active_indices[i] : i \in 1..count}

\* a returned list holding the newly reclassified entries only
pending_list_NewOnly(out, marked) ==
    LET idx == SelectSeq([i \in DOMAIN out |-> i], LAMBDA i : i \in marked)
    IN [k \in DOMAIN idx |-> out[idx[k]]]

\* pending_list: every entry of the window tagged pending after the loop
pending_list(out, marked) == PendingOf(out)

\* returns the mutated entries and the returned list
\* (active_max is a natural number: a negative one makes the loop index
\* active_indices out of range)
slide_and_collect_pending(entries, active_max) ==
    LET active_indices == ActiveIndices(entries) IN
    IF WithinCapacity(Len(active_indices), active_max)
    THEN [entries |-> entries, ret |-> <<>>]
    ELSE LET marked == MarkedIndices(active_indices,
                                     to_mark_count(Len(active_indices), active_max))
             out == [idx \in DOMAIN entries |->
                       IF idx \in marked
                       THEN ShortTermEntry("pending", entries[idx].user,
                                           entries[idx].assistant,
                                           entries[idx].timestamp)
                       ELSE entries[idx]]
         IN [entries |-> out, ret |-> pending_list(out, marked)]

\* an append that puts the new entry in front
append_turn_Prepend(entries, user_content, assistant_content, ts) ==
    <<ShortTermEntry("active", user_content, assistant_content, ts)>> \o entries

append_turn(entries, user_content, assistant_content, ts) ==
    Append(entries, ShortTermEntry("active", user_content, assistant_content, ts))

\* a key without the timestamp
SeenKey_NoTimestamp(e) == <<e.user, e.assistant>>

\* the key of the set "seen"
SeenKey(e) == <<e.user, e.assistant, e.timestamp>>

\* a removal that looks at the tag as well and spares active entries
remove_pending_after_add_TagAware(entries, to_remove) ==
    LET seen == {SeenKey(to_remove[i]) : i \in DOMAIN to_remove} IN
    SelectSeq(entries, LAMBDA e : e.tag = "active" \/ SeenKey(e) \notin seen)

remove_pending_after_add(entries, to_remove) ==
    LET seen == {SeenKey(to_remove[i]) : i \in DOMAIN to_remove} IN
    SelectSeq(entries, LAMBDA e : SeenKey(e) \notin seen)

(***************************************************************************)
(* mem0_bridge.py                                                          *)
(***************************************************************************)
\* None, an empty dict, a non-empty dict
ConfigValues == {"None", "empty", "cfg"}

\* _create_memory: the Memory object, or None when mem0 is missing or its
\* construction raises
_create_memory == {"None", "Memory"}

\* a bridge that builds a default backend when nothing is configured
get_mem0_DefaultBackend ==
    IF mem0_instance = "None"
    THEN {[ret |-> m, inst |-> m] : m \in _create_memory}
    ELSE {[ret |-> mem0_instance, inst |-> mem0_instance]}

\* get_mem0(): the possible (returned value, new _mem0_instance) pairs
get_mem0 ==
    IF mem0_config = "None"
    THEN {[ret |-> "None", inst |-> mem0_instance]}
    ELSE IF mem0_instance = "None"
    THEN {[ret |-> m, inst |-> m] : m \in _create_memory}
    ELSE {[ret |-> mem0_instance, inst |-> mem0_instance]}

\* a bridge that reports success whatever _add did
AddReturn_AlwaysTrue(raised) == TRUE

\* add_from_pending, after the awaited _add: True, or False when it raised
AddReturn(raised) == ~raised

\* a bridge that lets the backend's exception through
AddEscapes_Reraise(raised) == IF raised THEN "Exception" ELSE "none"

\* the exception add_from_pending lets escape when _add raised
AddEscapes(raised) == "none"

\* the messages m.add received for one entry of a session
Msg(session_id, e) == <<session_id, e.user, e.assistant>>

(***************************************************************************)
(* State                                                                   *)
(***************************************************************************)
Init ==
    /\ pc = [t \in Tasks |-> "idle"]
    /\ sess = [t \in Tasks |-> SidOther]
    /\ text = [t \in Tasks |-> <<"", "">>]
    /\ now = [t \in Tasks |-> ""]
    /\ cap = [t \in Tasks |-> 0]
    /\ window = [t \in Tasks |-> <<>>]
    /\ batch = [t \in Tasks |-> <<>>]
    /\ ok = [t \in Tasks |-> FALSE]
    /\ call = [t \in Tasks |-> "none"]
    /\ exc = [t \in Tasks |-> "none"]
    /\ warned = [t \in Tasks |-> FALSE]
    /\ running = NoTask
    /\ disk = [p \in Paths |-> NoFile]
    /\ SESSION_LOCKS = [s \in Sessions |-> 0]
    /\ made = [s \in Sessions |-> 0]
    /\ guard = NoTask
    /\ lock = [t \in Tasks |-> 0]
    /\ _ACTIVE_MAX = 0
    /\ held = [s \in Sessions |-> NoTask]
    /\ mem0_config = "None"
    /\ mem0_instance = "None"
    /\ mem = {}
    /\ clock = 1
    /\ turns = 0
    /\ removed = {}
    /\ given = <<>>

taskVars == <<pc, sess, text, now, cap, window, batch, ok, call, exc, warned>>
bridgeVars == <<mem0_config, mem0_instance, mem>>
lockVars == <<SESSION_LOCKS, made, held>>
guardVars == <<guard, lock>>

\* _get_session_lock(session_id) run from the guard's acquisition to its
\* release with no other thread in between: the lock of the session is
\* looked up and, when there is none, created and stored. A lock object is
\* named by the count of the locks created for its session; 0 is None.
_get_session_lock(session_id) ==
    /\ SESSION_LOCKS' = [SESSION_LOCKS EXCEPT ![session_id] =
                           IF @ = 0 THEN made[session_id] + 1 ELSE @]
    /\ made' = [made EXCEPT ![session_id] =
                  IF SESSION_LOCKS[session_id] = 0 THEN @ + 1 ELSE @]

(***************************************************************************)
(* The host configures the long-term backend                               *)
(***************************************************************************)
\* (called while the plugin starts, before the first turn)
init_mem0(config) ==
    /\ running = NoTask
    /\ turns = 0
    /\ mem0_config' = config
    /\ IF mem0_instance = "None" /\ config = "cfg"
       THEN mem0_instance' \in _create_memory
       ELSE mem0_instance' = mem0_instance
    /\ UNCHANGED <<taskVars, running, disk, lockVars, mem, clock, turns,
                   removed, given, guardVars, _ACTIVE_MAX>>

(***************************************************************************)
(* One turn cycle of a task                                                *)
(***************************************************************************)
StartTurn(t) ==
    /\ pc[t] = "idle"
    /\ running = NoTask
    /\ turns < MaxTurns
    /\ \E s \in TurnSessions, u \in TurnUsers, a \in Assistants, c \in Capacities :
         /\ sess' = [sess EXCEPT ![t] = s]
         /\ text' = [text EXCEPT ![t] = <<u, a>>]
         /\ cap' = [cap EXCEPT ![t] = c]
    /\ pc' = [pc EXCEPT ![t] = "load"]
    /\ window' = [window EXCEPT ![t] = <<>>]
    /\ batch' = [batch EXCEPT ![t] = <<>>]
    /\ ok' = [ok EXCEPT ![t] = FALSE]
    /\ call' = [call EXCEPT ![t] = "none"]
    /\ exc' = [exc EXCEPT ![t] = "none"]
    /\ warned' = [warned EXCEPT ![t] = FALSE]
    /\ now' = [now EXCEPT ![t] = ""]
    /\ running' = t
    /\ turns' = turns + 1
    /\ UNCHANGED <<disk, lockVars, bridgeVars, clock, removed, given,
                   guardVars, _ACTIVE_MAX>>

\* one lock shared by every session
locked_AnySession(session_id) == \E s \in Sessions : held[s] # NoTask

\* asyncio.Lock.locked() of the lock _get_session_lock returns for the session
locked(session_id) == held[session_id] # NoTask

\* load_window finds the session lock taken and suspends
LoadWait(t) ==
    /\ pc[t] = "load"
    /\ running = t
    /\ locked(sess[t])
    /\ running' = NoTask
    /\ _get_session_lock(sess[t])
    /\ UNCHANGED <<taskVars, disk, held, bridgeVars, clock, turns, removed,
                   given, guardVars, _ACTIVE_MAX>>

\* load_window: the lock is free, the body runs without suspending
LoadWindow(t) ==
    /\ pc[t] = "load"
    /\ running \in {t, NoTask}
    /\ ~locked(sess[t])
    /\ _get_session_lock(sess[t])
    /\ LET r == load_window(disk[_path(sess[t])]) IN
         /\ window' = [window EXCEPT ![t] = r.entries]
         /\ exc' = [exc EXCEPT ![t] = r.exc]
         /\ warned' = [warned EXCEPT ![t] = r.warned]
         /\ pc' = [pc EXCEPT ![t] = IF r.exc = "none" THEN "loaded" ELSE "idle"]
         /\ running' = IF r.exc = "none" THEN t ELSE NoTask
    /\ UNCHANGED <<sess, text, now, cap, batch, ok, call, disk, held,
                   bridgeVars, clock, turns, removed, given,
                   guardVars, _ACTIVE_MAX>>

AppendTurn(t) ==
    /\ pc[t] = "loaded"
    /\ running = t
    /\ \E n \in {clock, clock + 1} :
         /\ n <= MaxClock
         /\ clock' = n
         /\ now' = [now EXCEPT ![t] = Iso(n)]
         /\ window' = [window EXCEPT ![t] =
                         append_turn(window[t], text[t][1], text[t][2], Iso(n))]
    /\ pc' = [pc EXCEPT ![t] = "appended"]
    /\ UNCHANGED <<sess, text, cap, batch, ok, call, exc, warned, running,
                   disk, lockVars, bridgeVars, turns, removed, given,
                   guardVars, _ACTIVE_MAX>>

Slide(t) ==
    /\ pc[t] = "appended"
    /\ running = t
    /\ LET r == slide_and_collect_pending(window[t], cap[t]) IN
         /\ window' = [window EXCEPT ![t] = r.entries]
         /\ batch' = [batch EXCEPT ![t] = r.ret]
    /\ pc' = [pc EXCEPT ![t] = "slid"]
    /\ UNCHANGED <<sess, text, now, cap, ok, call, exc, warned, running,
                   disk, lockVars, bridgeVars, clock, turns, removed, given,
                   guardVars, _ACTIVE_MAX>>

\* no promotion batch was produced: straight to the save
SkipPromotion(t) ==
    /\ pc[t] = "slid"
    /\ running = t
    /\ batch[t] = <<>>
    /\ pc' = [pc EXCEPT ![t] = "tosave"]
    /\ UNCHANGED <<sess, text, now, cap, window, batch, ok, call, exc, warned,
                   running, disk, lockVars, bridgeVars, clock, turns, removed,
                   given, guardVars, _ACTIVE_MAX>>

\* add_from_pending up to its await: returns True at once when there is no
\* Mem0 instance, otherwise hands _add to a worker thread and suspends
AddFromPending(t) ==
    /\ pc[t] = "slid"
    /\ running = t
    /\ batch[t] # <<>>
    /\ \E g \in get_mem0 :
         /\ mem0_instance' = g.inst
         /\ IF g.ret = "None"
            THEN /\ ok' = [ok EXCEPT ![t] = TRUE]
                 /\ call' = [call EXCEPT ![t] = "not_called"]
                 /\ pc' = [pc EXCEPT ![t] = "added"]
                 /\ running' = t
            ELSE /\ ok' = ok
                 /\ call' = [call EXCEPT ![t] = "in_flight"]
                 /\ pc' = [pc EXCEPT ![t] = "adding"]
                 /\ running' = NoTask
    /\ UNCHANGED <<sess, text, now, cap, window, batch, exc, warned, disk,
                   lockVars, mem0_config, mem, clock, turns, removed, given,
                   guardVars, _ACTIVE_MAX>>

\* _add ran in the worker thread: m.add succeeded for the first k entries
\* and raised on the next one, or succeeded for all of them
AddDone(t) ==
    /\ pc[t] = "adding"
    /\ running = NoTask
    /\ \E k \in 0..Len(batch[t]) :
         LET raised == k < Len(batch[t]) IN
         /\ mem' = mem \cup {Msg(sess[t], batch[t][i]) : i \in 1..k}
         /\ call' = [call EXCEPT ![t] = IF raised THEN "raised" ELSE "returned"]
         /\ ok' = [ok EXCEPT ![t] = AddReturn(raised)]
         /\ exc' = [exc EXCEPT ![t] = AddEscapes(raised)]
         /\ warned' = [warned EXCEPT ![t] = raised]
    /\ pc' = [pc EXCEPT ![t] = "added"]
    /\ running' = t
    /\ UNCHANGED <<sess, text, now, cap, window, batch, disk, lockVars,
                   mem0_config, mem0_instance, clock, turns, removed, given,
                   guardVars, _ACTIVE_MAX>>

\* add_from_pending returned True: remove_pending_after_add
Remove(t) ==
    /\ pc[t] = "added"
    /\ running = t
    /\ ok[t]
    /\ LET out == remove_pending_after_add(window[t], batch[t]) IN
         /\ window' = [window EXCEPT ![t] = out]
         /\ removed' = removed \cup
              {<<sess[t], Ident(window[t][i])>> : i \in
                 {j \in DOMAIN window[t] :
                    \A m \in DOMAIN out : Ident(out[m]) # Ident(window[t][j])}}
    /\ pc' = [pc EXCEPT ![t] = "tosave"]
    /\ UNCHANGED <<sess, text, now, cap, batch, ok, call, exc, warned, running,
                   disk, lockVars, bridgeVars, clock, turns, given,
                   guardVars, _ACTIVE_MAX>>

\* add_from_pending returned False: the window is saved as it is
KeepPending(t) ==
    /\ pc[t] = "added"
    /\ running = t
    /\ ~ok[t]
    /\ pc' = [pc EXCEPT ![t] = "tosave"]
    /\ UNCHANGED <<sess, text, now, cap, window, batch, ok, call, exc, warned,
                   running, disk, lockVars, bridgeVars, clock, turns, removed,
                   given, guardVars, _ACTIVE_MAX>>

\* save_window finds the session lock taken and suspends
SaveWait(t) ==
    /\ pc[t] = "tosave"
    /\ running = t
    /\ locked(sess[t])
    /\ running' = NoTask
    /\ _get_session_lock(sess[t])
    /\ UNCHANGED <<taskVars, disk, held, bridgeVars, clock, turns, removed,
                   given, guardVars, _ACTIVE_MAX>>

\* save_window takes the lock and awaits _save_sync in a worker thread;
\* open(p, "w") truncates the file
SaveBegin(t) ==
    /\ pc[t] = "tosave"
    /\ running \in {t, NoTask}
    /\ ~locked(sess[t])
    /\ _get_session_lock(sess[t])
    /\ held' = [held EXCEPT ![sess[t]] = t]
    /\ disk' = [disk EXCEPT ![_path(sess[t])] = open_w(disk[_path(sess[t])])]
    /\ pc' = [pc EXCEPT ![t] = "saving"]
    /\ running' = NoTask
    /\ UNCHANGED <<sess, text, now, cap, window, batch, ok, call, exc, warned,
                   bridgeVars, clock, turns, removed, given,
                   guardVars, _ACTIVE_MAX>>

\* json.dump completed, the file is closed, the lock released, the turn ends
SaveEnd(t) ==
    /\ pc[t] = "saving"
    /\ running = NoTask
    /\ disk' = [disk EXCEPT ![_path(sess[t])] =
                  JsonFile(SavedDoc(sess[t], window[t]))]
    /\ held' = [held EXCEPT ![sess[t]] = NoTask]
    /\ pc' = [pc EXCEPT ![t] = "idle"]
    \* the locals of the finished turn are gone
    /\ window' = [window EXCEPT ![t] = <<>>]
    /\ batch' = [batch EXCEPT ![t] = <<>>]
    /\ ok' = [ok EXCEPT ![t] = FALSE]
    /\ call' = [call EXCEPT ![t] = "none"]
    /\ cap' = [cap EXCEPT ![t] = 0]
    /\ warned' = [warned EXCEPT ![t] = FALSE]
    /\ UNCHANGED <<sess, text, now, exc, running, SESSION_LOCKS, made,
                   bridgeVars, clock, turns, removed, given, guardVars,
                   _ACTIVE_MAX>>

Next ==
    \/ \E c \in ConfigValues : init_mem0(c)
    \/ \E t \in Tasks :
         \/ StartTurn(t)
         \/ LoadWait(t)
         \/ LoadWindow(t)
         \/ AppendTurn(t)
         \/ Slide(t)
         \/ SkipPromotion(t)
         \/ AddFromPending(t)
         \/ AddDone(t)
         \/ Remove(t)
         \/ KeepPending(t)
         \/ SaveWait(t)
         \/ SaveBegin(t)
         \/ SaveEnd(t)

Spec == Init /\ [][Next]_vars

(***************************************************************************)
(* Properties of the concurrent turn cycles (Spec)                         *)
(***************************************************************************)
\* the entries load_window returns for a session from the current files
Persisted(session_id) == load_window(disk[_path(session_id)]).entries

Idents(entries) == {Ident(entries[i]) : i \in DOMAIN entries}

\* the task completed a turn: its entry was appended and its save finished
Finished(t) == pc[t] = "idle" /\ now[t] # "" /\ exc[t] = "none"

TurnEntry(t) == <<text[t][1], text[t][2], now[t]>>

\* C1: when two tasks have finished turn cycles of the same session, the
\* persisted window is the outcome of the two cycles run one after the
\* other, so the turn each of them appended is in the persisted window unless
\* remove_pending_after_add removed it.
C1_NoTurnLost ==
    \A t1 \in Tasks, t2 \in Tasks :
        (t1 # t2 /\ Finished(t1) /\ Finished(t2) /\ sess[t1] = sess[t2])
        => \/ TurnEntry(t1) \in Idents(Persisted(sess[t1]))
           \/ <<sess[t1], TurnEntry(t1)>> \in removed

\* a step of task t inside one turn cycle in which an entry leaves its window
Leaves(t, e) ==
    /\ pc[t] \in {"loaded", "appended", "slid", "adding", "added"}
    /\ pc'[t] \in {"appended", "slid", "adding", "added", "tosave"}
    /\ \E i \in DOMAIN window[t] : window[t][i] = e
    /\ Ident(e) \notin Idents(window'[t])

AllEntries == {ShortTermEntry(g, u, a, Iso(n)) :
                 g \in TagType, u \in Users, a \in Assistants, n \in 1..MaxClock}

\* C2 (as claimed): an entry leaves the window only after a backend add call
\* that included it completed successfully.
C2_OnlyAfterBackendAdd ==
    [][\A t \in Tasks : \A e \in AllEntries :
         Leaves(t, e) => /\ call[t] = "returned"
                         /\ Msg(sess[t], e) \in mem]_vars

\* C2 (amended): an entry leaves the window only in remove_pending_after_add,
\* after add_from_pending returned True for a batch holding its identity
\* tuple: either every m.add of the batch succeeded, or get_mem0() gave no
\* Mem0 instance and no add was made at all.
C2_OnlyAfterAddReturnedTrue ==
    [][\A t \in Tasks : \A e \in AllEntries :
         Leaves(t, e) =>
           /\ pc[t] = "added" /\ ok[t]
           /\ Ident(e) \in Idents(batch[t])
           /\ \/ call[t] = "returned" /\ Msg(sess[t], e) \in mem
              \/ call[t] = "not_called"
                 /\ (mem0_config = "None" \/ mem0_instance = "None")]_vars

\* C2 witness: the backend add succeeded and the batch was removed
C2_Witness ==
    \E t \in Tasks :
        /\ pc[t] = "tosave" /\ ok[t] /\ call[t] = "returned"
        /\ batch[t] # <<>>
        /\ Idents(batch[t]) \cap Idents(window[t]) = {}
        /\ \A i \in DOMAIN batch[t] : Msg(sess[t], batch[t][i]) \in mem

\* the persisted pending entries are still in the task's window, in place
KeepsPersistedPending(t) ==
    LET old == Persisted(sess[t]) IN
    \A i \in DOMAIN old :
        old[i].tag = "pending" => i \in DOMAIN window[t] /\ window[t][i] = old[i]

\* C3 (as claimed): once an add failed and left pending entries in the
\* persisted window, the batch of every later turn holds all of them and the
\* newly reclassified ones, in window order.
C3_BatchHasAllPending ==
    \A t \in Tasks :
        (pc[t] = "slid" /\ PendingOf(Persisted(sess[t])) # <<>>)
        => /\ KeepsPersistedPending(t)
           /\ batch[t] = PendingOf(window[t])

\* C3 (amended): on a later turn whose active count exceeds the capacity,
\* the batch holds all previously un-promoted pending entries and the newly
\* reclassified ones, in window order; on a turn without overflow the batch
\* is empty and the pending entries stay in the window.
C3_BatchHasAllPendingOnOverflow ==
    \A t \in Tasks :
        (pc[t] = "slid" /\ PendingOf(Persisted(sess[t])) # <<>>)
        => /\ KeepsPersistedPending(t)
           /\ IF ActiveCount(Persisted(sess[t])) + 1 > cap[t]
              THEN batch[t] = PendingOf(window[t])
              ELSE batch[t] = <<>>

\* C3 witness: a retry batch with an old pending entry and a new one
C3_Witness ==
    \E t \in Tasks :
        /\ pc[t] = "slid"
        /\ PendingOf(Persisted(sess[t])) # <<>>
        /\ Len(batch[t]) > Len(PendingOf(Persisted(sess[t])))
        /\ batch[t][1] = PendingOf(Persisted(sess[t]))[1]

\* C8: when the backend add raises for a non-empty batch, add_from_pending
\* returns False, no exception escapes, and the window is the same before
\* and after, up to the save.
C8_FailureLeavesWindow ==
    [][\A t \in Tasks :
         /\ (pc[t] = "adding" /\ pc'[t] = "added" /\ call'[t] = "raised")
            => /\ batch[t] # <<>>
               /\ ok'[t] = FALSE
               /\ exc'[t] = "none"
               /\ window'[t] = window[t]
         /\ (pc[t] = "added" /\ call[t] = "raised" /\ pc'[t] = "tosave")
            => window'[t] = window[t]]_vars

\* C8 witness: the add raised and the pending entries are still in the window
C8_Witness ==
    \E t \in Tasks :
        /\ pc[t] = "tosave" /\ call[t] = "raised" /\ ~ok[t]
        /\ batch[t] # <<>>
        /\ PendingOf(window[t]) = batch[t]

(***************************************************************************)
(* The window operations and the persistence applied to arbitrary windows  *)
(* and files (SpecFn)                                                      *)
(***************************************************************************)
FnTask == "task1"

FnStamps == {Iso(1), Iso(2)}

FnEntries == {ShortTermEntry(g, u, a, ts) :
                g \in TagType, u \in Users, a \in Assistants, ts \in FnStamps}

\* every window of at most MaxLen entries
Windows == UNION {[1..n -> FnEntries] : n \in 0..MaxLen}

\* the lists passed as to_remove
Batches == UNION {[1..n -> FnEntries] : n \in 0..2}

\* files as load_window may find them: missing, unparseable, JSON of another
\* shape than the record, a record without "entries", entries with fields
\* missing
FileSamples ==
    {NoFile, Garbage,
     JsonFile(JList(<<>>)),
     JsonFile(JNum(1)),
     JsonFile(JObj([session_id |-> JStr(SidOther)])),
     JsonFile(JObj([entries |-> JNum(1)])),
     JsonFile(JObj([entries |-> JList(<<JNum(1)>>)])),
     JsonFile(JObj([entries |-> JList(<<JObj([user |-> JStr("u1")])>>)]))}

InitFn ==
    /\ given \in Windows
    /\ disk \in {[p \in Paths |-> IF p = q THEN f ELSE NoFile] :
                   q \in Paths,
                   f \in (IF given = <<>> THEN FileSamples ELSE {NoFile})}
    /\ window = [t \in Tasks |-> IF t = FnTask THEN given ELSE <<>>]
    /\ pc = [t \in Tasks |-> IF t = FnTask THEN "fn" ELSE "idle"]
    /\ sess = [t \in Tasks |-> SidOther]
    /\ text = [t \in Tasks |-> <<"", "">>]
    /\ now = [t \in Tasks |-> ""]
    /\ cap = [t \in Tasks |-> 0]
    /\ batch = [t \in Tasks |-> <<>>]
    /\ ok = [t \in Tasks |-> FALSE]
    /\ call = [t \in Tasks |-> "none"]
    /\ exc = [t \in Tasks |-> "none"]
    /\ warned = [t \in Tasks |-> FALSE]
    /\ running = NoTask
    /\ SESSION_LOCKS = [s \in Sessions |-> 0]
    /\ made = [s \in Sessions |-> 0]
    /\ guard = NoTask
    /\ lock = [t \in Tasks |-> 0]
    /\ _ACTIVE_MAX = 0
    /\ held = [s \in Sessions |-> NoTask]
    /\ mem0_config = "None"
    /\ mem0_instance = "None"
    /\ mem = {}
    /\ clock = 1
    /\ turns = 0
    /\ removed = {}

FnSlide ==
    /\ pc[FnTask] = "fn"
    /\ \E c \in Capacities :
         LET r == slide_and_collect_pending(window[FnTask], c) IN
         /\ cap' = [cap EXCEPT ![FnTask] = c]
         /\ window' = [window EXCEPT ![FnTask] = r.entries]
         /\ batch' = [batch EXCEPT ![FnTask] = r.ret]
    /\ pc' = [pc EXCEPT ![FnTask] = "fn_slid"]
    /\ UNCHANGED <<sess, text, now, ok, call, exc, warned, running, disk,
                   lockVars, bridgeVars, clock, turns, removed, given,
                   guardVars, _ACTIVE_MAX>>

FnRemove ==
    /\ pc[FnTask] = "fn"
    /\ \E b \in Batches :
         /\ batch' = [batch EXCEPT ![FnTask] = b]
         /\ window' = [window EXCEPT ![FnTask] =
                         remove_pending_after_add(window[FnTask], b)]
    /\ pc' = [pc EXCEPT ![FnTask] = "fn_removed"]
    /\ UNCHANGED <<sess, text, now, cap, ok, call, exc, warned, running, disk,
                   lockVars, bridgeVars, clock, turns, removed, given,
                   guardVars, _ACTIVE_MAX>>

\* save_window, from taking the lock to releasing it
FnSave ==
    /\ pc[FnTask] = "fn"
    /\ \E s \in Sessions :
         /\ sess' = [sess EXCEPT ![FnTask] = s]
         /\ _get_session_lock(s)
         /\ disk' = [disk EXCEPT ![_path(s)] =
                       JsonFile(SavedDoc(s, window[FnTask]))]
    /\ pc' = [pc EXCEPT ![FnTask] = "fn_saved"]
    /\ UNCHANGED <<text, now, cap, window, batch, ok, call, exc, warned,
                   running, held, bridgeVars, clock, turns, removed, given,
                   guardVars, _ACTIVE_MAX>>

\* load_window, of the session just saved or of any session
FnLoad ==
    /\ pc[FnTask] \in {"fn", "fn_saved"}
    /\ \E s \in (IF pc[FnTask] = "fn" THEN Sessions ELSE {sess[FnTask]}) :
         LET r == load_window(disk[_path(s)]) IN
         /\ sess' = [sess EXCEPT ![FnTask] = s]
         /\ _get_session_lock(s)
         /\ window' = [window EXCEPT ![FnTask] = r.entries]
         /\ exc' = [exc EXCEPT ![FnTask] = r.exc]
         /\ warned' = [warned EXCEPT ![FnTask] = r.warned]
    /\ pc' = [pc EXCEPT ![FnTask] =
                IF pc[FnTask] = "fn" THEN "fn_loaded" ELSE "fn_reloaded"]
    /\ UNCHANGED <<text, now, cap, batch, ok, call, running, disk, held,
                   bridgeVars, clock, turns, removed, given,
                   guardVars, _ACTIVE_MAX>>

NextFn == FnSlide \/ FnRemove \/ FnSave \/ FnLoad

SpecFn == InitFn /\ [][NextFn]_vars

\* the number of active entries of w at the positions before i
ActiveBefore(w, i) == Cardinality({j \in 1..(i - 1) : w[j].tag = "active"})

\* the number of active entries of w at the positions from i on
ActiveFrom(w, i) == Cardinality({j \in i..Len(w) : w[j].tag = "active"})

SameButTag(e, f) ==
    e.user = f.user /\ e.assistant = f.assistant /\ e.timestamp = f.timestamp

\* C4: after slide_and_collect_pending(window, C) at most C entries are
\* tagged active.
C4_CapacityInvariant ==
    pc[FnTask] = "fn_slid" => ActiveCount(window[FnTask]) <= cap[FnTask]

\* C4 witness: an eviction brought a window of more than C+1 active entries
\* down to C
C4_Witness ==
    /\ pc[FnTask] = "fn_slid"
    /\ ActiveCount(given) > cap[FnTask] + 1
    /\ ActiveCount(window[FnTask]) = cap[FnTask]
    /\ cap[FnTask] > 0

\* C5: with N active entries and capacity C < N, exactly the oldest N-C
\* active entries are reclassified to pending, no other entry changes, and
\* the newest C active entries stay active.
C5_FifoEviction ==
    (pc[FnTask] = "fn_slid" /\ ActiveCount(given) > cap[FnTask])
    => LET n == ActiveCount(given)
           w == window[FnTask]
       IN /\ Len(w) = Len(given)
          /\ \A i \in DOMAIN given :
               /\ SameButTag(w[i], given[i])
               /\ (given[i].tag = "active" /\ ActiveBefore(given, i) < n - cap[FnTask])
                    => w[i].tag = "pending"
               /\ ~(given[i].tag = "active" /\ ActiveBefore(given, i) < n - cap[FnTask])
                    => w[i].tag = given[i].tag
               /\ (given[i].tag = "active" /\ ActiveFrom(given, i) <= cap[FnTask])
                    => w[i].tag = "active"

\* C5 witness: the two oldest active entries are reclassified and a newer
\* one stays active
C5_Witness ==
    /\ pc[FnTask] = "fn_slid"
    /\ ActiveCount(given) = cap[FnTask] + 2
    /\ cap[FnTask] >= 1
    /\ pending_count(window[FnTask]) = pending_count(given) + 2

\* C6: with at most C active entries the batch is empty and the window is
\* unchanged, pending entries included.
C6_NoOpBelowCapacity ==
    (pc[FnTask] = "fn_slid" /\ ActiveCount(given) <= cap[FnTask])
    => batch[FnTask] = <<>> /\ window[FnTask] = given

\* C6 witness: a window with pending entries and exactly C active ones
C6_Witness ==
    /\ pc[FnTask] = "fn_slid"
    /\ ActiveCount(given) = cap[FnTask]
    /\ cap[FnTask] > 0
    /\ pending_count(given) > 0
    /\ batch[FnTask] = <<>>

\* the positions of given whose tuple matches no entry of the batch
Kept == {i \in DOMAIN given : Ident(given[i]) \notin Idents(batch[FnTask])}

\* C7: remove_pending_after_add removes exactly the entries whose tuple
\* matches an entry of the batch; the others stay, unchanged, in order.
C7_RemovalPrecision ==
    pc[FnTask] = "fn_removed"
    => /\ Len(window[FnTask]) = Cardinality(Kept)
       /\ \A i \in Kept :
            window[FnTask][Cardinality({j \in Kept : j <= i})] = given[i]

\* C7 witness: an entry is removed, an active and a pending one around it stay
C7_Witness ==
    /\ pc[FnTask] = "fn_removed"
    /\ Len(given) = 3
    /\ Len(window[FnTask]) = 2
    /\ window[FnTask][1].tag = "pending"
    /\ window[FnTask][2].tag = "active"
    /\ given[2].user = window[FnTask][1].user
    /\ given[2].assistant = window[FnTask][1].assistant

\* C9: save_window(window) followed by load_window of its session returns
\* the same entries (tag, user, assistant, timestamp) in the same order.
C9_RoundTrip ==
    pc[FnTask] = "fn_reloaded"
    => exc[FnTask] = "none" /\ window[FnTask] = given

\* C9 witness: a window with pending and active entries came back
C9_Witness ==
    /\ pc[FnTask] = "fn_reloaded"
    /\ Len(given) >= 2
    /\ pending_count(given) > 0
    /\ ActiveCount(given) > 0
    /\ sess[FnTask] = SidColon

\* the file holds a record of the expected shape
RecordShaped(file) ==
    /\ file.k = "json"
    /\ file.v.j = "obj"
    /\ "entries" \in DOMAIN file.v.p
    /\ file.v.p["entries"].j = "list"
    /\ \A i \in DOMAIN file.v.p["entries"].p : file.v.p["entries"].p[i].j = "obj"

\* C10: load_window of a session whose record is absent, unreadable or
\* corrupt, be it JSON of another shape, returns an empty window and raises
\* nothing.
C10_LoadNeverFails ==
    (pc[FnTask] = "fn_loaded" /\ ~RecordShaped(disk[_path(sess[FnTask])]))
    => exc[FnTask] = "none" /\ window[FnTask] = <<>>

(***************************************************************************)
(* Sessions, locks and the disabled backend in the turn cycles             *)
(***************************************************************************)
\* the task holds the lock of its session (it is inside save_window)
InCriticalSection(t) == pc[t] = "saving"

\* the task is at the "async with lock" of load_window or save_window
AtLock(t) == pc[t] \in {"load", "tosave"}

\* C14: a task at the lock of load_window or save_window finds it free
\* unless a task of the same session is inside the critical section: no task
\* of another session, holding or awaiting its own lock, ever blocks it.
C14_NoCrossSessionBlocking ==
    \A t \in Tasks :
      (/\ AtLock(t)
       /\ \A o \in Tasks \ {t} : ~(InCriticalSection(o) /\ sess[o] = sess[t]))
      => ~locked(sess[t])

\* two tasks are inside save_window at once, each for its own session
C14_Witness ==
    \E t \in Tasks, o \in Tasks :
      /\ InCriticalSection(t) /\ InCriticalSection(o)
      /\ sess[t] # sess[o]

\* C15: with no backend configuration, add_from_pending of a non-empty batch
\* returns True without any add call, nothing reaches the backend, and the
\* caller then removes the batch entries from the window.
C15_DisabledBackend ==
    mem0_config = "None" =>
      /\ mem = {}
      /\ \A t \in Tasks :
           batch[t] # <<>> =>
             /\ pc[t] # "adding"
             /\ pc[t] = "added" => (ok[t] /\ call[t] = "not_called")
             /\ pc[t] \in {"tosave", "saving"} =>
                  /\ call[t] = "not_called"
                  /\ Idents(batch[t]) \cap Idents(window[t]) = {}

\* the batch entries were removed although no backend is configured
C15_Witness ==
    /\ mem0_config = "None"
    /\ \E t \in Tasks :
         /\ pc[t] = "tosave"
         /\ batch[t] # <<>>
         /\ call[t] = "not_called"
         /\ Idents(batch[t]) \cap Idents(window[t]) = {}

\* C16: save_window of one session never changes what load_window of any
\* other session returns.
C16_SessionsShareNoRecord ==
    [][(pc[FnTask] = "fn" /\ pc'[FnTask] = "fn_saved") =>
         \A B \in Sessions \ {sess'[FnTask]} :
           /\ load_window(disk'[_path(B)]).entries = load_window(disk[_path(B)]).entries
           /\ load_window(disk'[_path(B)]).exc = load_window(disk[_path(B)]).exc]_vars

(***************************************************************************)
(* The window operations in any order, starting from the empty window      *)
(***************************************************************************)
InitOps ==
    /\ pc = [t \in Tasks |-> IF t = FnTask THEN "op" ELSE "idle"]
    /\ sess = [t \in Tasks |-> SidOther]
    /\ text = [t \in Tasks |-> <<"", "">>]
    /\ now = [t \in Tasks |-> ""]
    /\ cap = [t \in Tasks |-> 0]
    /\ window = [t \in Tasks |-> <<>>]
    /\ batch = [t \in Tasks |-> <<>>]
    /\ ok = [t \in Tasks |-> FALSE]
    /\ call = [t \in Tasks |-> "none"]
    /\ exc = [t \in Tasks |-> "none"]
    /\ warned = [t \in Tasks |-> FALSE]
    /\ running = NoTask
    /\ disk = [p \in Paths |-> NoFile]
    /\ SESSION_LOCKS = [s \in Sessions |-> 0]
    /\ made = [s \in Sessions |-> 0]
    /\ guard = NoTask
    /\ lock = [t \in Tasks |-> 0]
    /\ _ACTIVE_MAX = 0
    /\ held = [s \in Sessions |-> NoTask]
    /\ mem0_config = "None"
    /\ mem0_instance = "None"
    /\ mem = {}
    /\ clock = 1
    /\ turns = 0
    /\ removed = {}
    /\ given = <<>>

\* every operation leaves in "given" the window it was applied to

\* append_turn; the wall clock has advanced or not since the last append
OpAppend ==
    /\ Len(window[FnTask]) < MaxLen
    /\ \E u \in TurnUsers, a \in Assistants, n \in {clock, clock + 1} :
         /\ n <= MaxClock
         /\ clock' = n
         /\ text' = [text EXCEPT ![FnTask] = <<u, a>>]
         /\ now' = [now EXCEPT ![FnTask] = Iso(n)]
         /\ window' = [window EXCEPT ![FnTask] =
                         append_turn(window[FnTask], u, a, Iso(n))]
    /\ given' = window[FnTask]
    /\ pc' = [pc EXCEPT ![FnTask] = "op_appended"]
    /\ UNCHANGED <<sess, cap, batch, ok, call, exc, warned, running, disk,
                   lockVars, bridgeVars, turns, removed,
                   guardVars, _ACTIVE_MAX>>

\* slide_and_collect_pending with any capacity
OpSlide ==
    /\ \E c \in Capacities :
         LET r == slide_and_collect_pending(window[FnTask], c) IN
         /\ window' = [window EXCEPT ![FnTask] = r.entries]
         /\ batch' = [batch EXCEPT ![FnTask] = r.ret]
    /\ given' = window[FnTask]
    /\ pc' = [pc EXCEPT ![FnTask] = "op_slid"]
    /\ UNCHANGED <<sess, text, now, cap, ok, call, exc, warned, running, disk,
                   lockVars, bridgeVars, clock, turns, removed,
                   guardVars, _ACTIVE_MAX>>

\* remove_pending_after_add with the list the last slide returned
OpRemove ==
    /\ window' = [window EXCEPT ![FnTask] =
                    remove_pending_after_add(window[FnTask], batch[FnTask])]
    /\ given' = window[FnTask]
    /\ pc' = [pc EXCEPT ![FnTask] = "op_removed"]
    /\ UNCHANGED <<sess, text, now, cap, batch, ok, call, exc, warned, running,
                   disk, lockVars, bridgeVars, clock, turns, removed,
                   guardVars, _ACTIVE_MAX>>

\* save_window, from taking the lock to releasing it
OpSave ==
    /\ _get_session_lock(sess[FnTask])
    /\ disk' = [disk EXCEPT ![_path(sess[FnTask])] =
                  JsonFile(SavedDoc(sess[FnTask], window[FnTask]))]
    /\ given' = window[FnTask]
    /\ pc' = [pc EXCEPT ![FnTask] = "op_saved"]
    /\ UNCHANGED <<sess, text, now, cap, window, batch, ok, call, exc, warned,
                   running, held, bridgeVars, clock, turns, removed,
                   guardVars, _ACTIVE_MAX>>

\* load_window: right after the save ("op_reloaded") or at any other time,
\* when it brings back the window of the last save
OpLoad ==
    /\ LET r == load_window(disk[_path(sess[FnTask])]) IN
         /\ window' = [window EXCEPT ![FnTask] = r.entries]
         /\ exc' = [exc EXCEPT ![FnTask] = r.exc]
         /\ warned' = [warned EXCEPT ![FnTask] = r.warned]
    /\ _get_session_lock(sess[FnTask])
    /\ given' = window[FnTask]
    /\ pc' = [pc EXCEPT ![FnTask] =
                IF pc[FnTask] = "op_saved" THEN "op_reloaded" ELSE "op_loaded"]
    /\ UNCHANGED <<sess, text, now, cap, batch, ok, call, running, disk, held,
                   bridgeVars, clock, turns, removed, guardVars, _ACTIVE_MAX>>

NextOps == OpAppend \/ OpSlide \/ OpRemove \/ OpSave \/ OpLoad

SpecOps == InitOps /\ [][NextOps]_vars

\* w is what is left of g when some of its elements are deleted
RECURSIVE IsSubseq(_, _)
IsSubseq(w, g) ==
    IF w = <<>> THEN TRUE
    ELSE IF g = <<>> THEN FALSE
    ELSE IF Head(w) = Head(g) THEN IsSubseq(Tail(w), Tail(g))
    ELSE IsSubseq(w, Tail(g))

IdentSeq(entries) == [i \in DOMAIN entries |-> Ident(entries[i])]

ActiveOf(entries) == SelectSeq(entries, LAMBDA e : e.tag = "active")

C12_OrderPreserved ==
    LET w == window[FnTask] IN
    /\ pc[FnTask] = "op_appended" =>
         /\ Len(w) = Len(given) + 1
         /\ SubSeq(w, 1, Len(given)) = given
         /\ w[Len(w)] = ShortTermEntry("active", text[FnTask][1],
                                       text[FnTask][2], now[FnTask])
    /\ pc[FnTask] = "op_removed" => IsSubseq(IdentSeq(w), IdentSeq(given))
    /\ pc[FnTask] = "op_slid" =>
         /\ Len(w) = Len(given)
         /\ \A i \in DOMAIN w : SameButTag(w[i], given[i])
         /\ \A i \in DOMAIN w : w[i].tag # given[i].tag =>
              (given[i].tag = "active" /\ w[i].tag = "pending")

\* the oldest entry was removed, the entries after it stay in their order
C12_Witness ==
    /\ pc[FnTask] = "op_removed"
    /\ Len(given) = MaxLen
    /\ Len(window[FnTask]) = MaxLen - 1
    /\ window[FnTask] = Tail(given)
    /\ Ident(window[FnTask][1]) # Ident(given[1])

\* C18: remove_pending_after_add removes every entry whose (user, assistant,
\* timestamp) tuple is in the batch, an active entry included; when the
\* tuples of the window are unique and the batch holds pending entries of
\* the window, the active entries are all kept.
C18_DuplicateTuples ==
    LET w == window[FnTask]
        b == batch[FnTask]
    IN pc[FnTask] = "op_removed" =>
         /\ \A i \in DOMAIN given :
              (given[i].tag = "active" /\ Ident(given[i]) \in Idents(b))
                => Ident(given[i]) \notin Idents(w)
         /\ (/\ \A i \in DOMAIN given, j \in DOMAIN given :
                  i # j => Ident(given[i]) # Ident(given[j])
             /\ \A k \in DOMAIN b :
                  b[k].tag = "pending" /\ \E i \in DOMAIN given : given[i] = b[k])
            => ActiveOf(w) = ActiveOf(given)

\* an active entry with the tuple of a batch entry was removed
C18_Witness ==
    /\ pc[FnTask] = "op_removed"
    /\ \E i \in DOMAIN given :
         /\ given[i].tag = "active"
         /\ Ident(given[i]) \in Idents(batch[FnTask])
         /\ Ident(given[i]) \notin Idents(window[FnTask])

\* C20: in every window the pending entries come before the active ones.
C20_PendingPrefix ==
    LET w == window[FnTask] IN
    \A i \in DOMAIN w, j \in DOMAIN w :
      (i < j /\ w[j].tag = "pending") => w[i].tag = "pending"

\* a full window with pending entries in front of active ones
C20_Witness ==
    /\ pc[FnTask] = "op_slid"
    /\ Len(window[FnTask]) = MaxLen
    /\ window[FnTask][1].tag = "pending"
    /\ window[FnTask][MaxLen].tag = "active"
    /\ batch[FnTask] # <<>>

(***************************************************************************)
(* save_window step by step, with the failures of _save_sync               *)
(***************************************************************************)
\* the record holds the window "given" of an earlier save; the window to save
\* is that window with one more turn
InitSave ==
    /\ given \in Windows
    /\ sess = [t \in Tasks |-> SidOther]
    /\ disk = [p \in Paths |->
                 IF p = _path(SidOther)
                 THEN JsonFile(SavedDoc(SidOther, given)) ELSE NoFile]
    /\ \E u \in Users :
         /\ text = [t \in Tasks |-> IF t = FnTask THEN <<u, "a1">> ELSE <<"", "">>]
         /\ window = [t \in Tasks |->
                        IF t = FnTask
                        THEN append_turn(given, u, "a1", Iso(MaxClock)) ELSE <<>>]
    /\ now = [t \in Tasks |-> IF t = FnTask THEN Iso(MaxClock) ELSE ""]
    /\ pc = [t \in Tasks |-> IF t = FnTask THEN "sv" ELSE "idle"]
    /\ cap = [t \in Tasks |-> 0]
    /\ batch = [t \in Tasks |-> <<>>]
    /\ ok = [t \in Tasks |-> FALSE]
    /\ call = [t \in Tasks |-> "none"]
    /\ exc = [t \in Tasks |-> "none"]
    /\ warned = [t \in Tasks |-> FALSE]
    /\ running = NoTask
    /\ SESSION_LOCKS = [s \in Sessions |-> IF s = SidOther THEN 1 ELSE 0]
    /\ made = [s \in Sessions |-> IF s = SidOther THEN 1 ELSE 0]
    /\ guard = NoTask
    /\ lock = [t \in Tasks |-> 0]
    /\ _ACTIVE_MAX = 0
    /\ held = [s \in Sessions |-> NoTask]
    /\ mem0_config = "None"
    /\ mem0_instance = "None"
    /\ mem = {}
    /\ clock = MaxClock
    /\ turns = 0
    /\ removed = {}

\* save_window: async with lock
SvAcquire ==
    /\ pc[FnTask] = "sv"
    /\ ~locked(sess[FnTask])
    /\ held' = [held EXCEPT ![sess[FnTask]] = FnTask]
    /\ pc' = [pc EXCEPT ![FnTask] = "sv_locked"]
    /\ UNCHANGED <<sess, text, now, cap, window, batch, ok, call, exc, warned,
                   running, disk, SESSION_LOCKS, made, bridgeVars, clock,
                   turns, removed, given, guardVars, _ACTIVE_MAX>>

\* _save_sync: os.makedirs or open raises; the exception leaves the
\* "async with", which releases the lock
SvOpenFails ==
    /\ pc[FnTask] = "sv_locked"
    /\ exc' = [exc EXCEPT ![FnTask] = "OSError"]
    /\ held' = [held EXCEPT ![sess[FnTask]] = NoTask]
    /\ pc' = [pc EXCEPT ![FnTask] = "sv_failed_open"]
    /\ UNCHANGED <<sess, text, now, cap, window, batch, ok, call, warned,
                   running, disk, SESSION_LOCKS, made, bridgeVars, clock,
                   turns, removed, given, guardVars, _ACTIVE_MAX>>

\* _save_sync: open(p, "w") succeeds
SvOpen ==
    /\ pc[FnTask] = "sv_locked"
    /\ disk' = [disk EXCEPT ![_path(sess[FnTask])] =
                  open_w(disk[_path(sess[FnTask])])]
    /\ pc' = [pc EXCEPT ![FnTask] = "sv_writing"]
    /\ UNCHANGED <<sess, text, now, cap, window, batch, ok, call, exc, warned,
                   running, lockVars, bridgeVars, clock, turns, removed, given,
                   guardVars, _ACTIVE_MAX>>

\* _save_sync: json.dump raises part-way (a write error, the disk is full);
\* the file keeps what was written so far
SvWriteFails ==
    /\ pc[FnTask] = "sv_writing"
    /\ exc' = [exc EXCEPT ![FnTask] = "OSError"]
    /\ held' = [held EXCEPT ![sess[FnTask]] = NoTask]
    /\ pc' = [pc EXCEPT ![FnTask] = "sv_failed_write"]
    /\ UNCHANGED <<sess, text, now, cap, window, batch, ok, call, warned,
                   running, disk, SESSION_LOCKS, made, bridgeVars, clock,
                   turns, removed, given, guardVars, _ACTIVE_MAX>>

\* _save_sync: json.dump is through, the file is closed, the lock released
SvWritten ==
    /\ pc[FnTask] = "sv_writing"
    /\ disk' = [disk EXCEPT ![_path(sess[FnTask])] =
                  JsonFile(SavedDoc(sess[FnTask], window[FnTask]))]
    /\ held' = [held EXCEPT ![sess[FnTask]] = NoTask]
    /\ pc' = [pc EXCEPT ![FnTask] = "sv_done"]
    /\ UNCHANGED <<sess, text, now, cap, window, batch, ok, call, exc, warned,
                   running, SESSION_LOCKS, made, bridgeVars, clock, turns,
                   removed, given, guardVars, _ACTIVE_MAX>>

\* the load_window that follows the save
SvLoad ==
    /\ pc[FnTask] \in {"sv_failed_open", "sv_failed_write", "sv_done"}
    /\ ~locked(sess[FnTask])
    /\ LET r == load_window(disk[_path(sess[FnTask])]) IN
         /\ window' = [window EXCEPT ![FnTask] = r.entries]
         /\ warned' = [warned EXCEPT ![FnTask] = r.warned]
         /\ call' = [call EXCEPT ![FnTask] = r.exc]
    /\ pc' = [pc EXCEPT ![FnTask] =
                IF pc[FnTask] = "sv_failed_open" THEN "sv_loaded_open_failed"
                ELSE IF pc[FnTask] = "sv_failed_write" THEN "sv_loaded_write_failed"
                ELSE "sv_loaded_saved"]
    /\ UNCHANGED <<sess, text, now, cap, batch, ok, exc, running, disk,
                   lockVars, bridgeVars, clock, turns, removed, given,
                   guardVars, _ACTIVE_MAX>>

NextSave ==
    SvAcquire \/ SvOpenFails \/ SvOpen \/ SvWriteFails \/ SvWritten \/ SvLoad

SpecSave == InitSave /\ [][NextSave]_vars

\* C19: after a save_window that raised, the session lock is free and the
\* following load_window returns the window stored before the save.
C19_FailedSaveKeepsRecord ==
    /\ pc[FnTask] \in {"sv_failed_open", "sv_failed_write"} =>
         (exc[FnTask] # "none" /\ ~locked(sess[FnTask]))
    /\ pc[FnTask] \in {"sv_loaded_open_failed", "sv_loaded_write_failed"} =>
         window[FnTask] = given

(***************************************************************************)
(* _get_session_lock statement by statement, called from concurrent        *)
(* threads, and the critical section its lock protects                     *)
(***************************************************************************)
\* a guard that excludes nobody
GuardFree_NoGuard == TRUE

\* _SESSION_LOCKS_GUARD can be acquired
GuardFree == guard = NoTask

\* the lock object k of the session is held by a caller
Taken(session_id, k) ==
    \E o \in Tasks : pc[o] = "lk_cs" /\ sess[o] = session_id /\ lock[o] = k

\* load_window / save_window: lock = _get_session_lock(session_id) is called
GlCall(t) ==
    /\ pc[t] = "idle"
    /\ \E s \in Sessions : sess' = [sess EXCEPT ![t] = s]
    /\ lock' = [lock EXCEPT ![t] = 0]
    /\ pc' = [pc EXCEPT ![t] = "gl_with"]
    /\ UNCHANGED <<text, now, cap, window, batch, ok, call, exc, warned,
                   running, disk, lockVars, bridgeVars, clock, turns, removed,
                   given, guard, _ACTIVE_MAX>>

\* with _SESSION_LOCKS_GUARD:
GlWith(t) ==
    /\ pc[t] = "gl_with"
    /\ GuardFree
    /\ guard' = t
    /\ pc' = [pc EXCEPT ![t] = "gl_get"]
    /\ UNCHANGED <<sess, text, now, cap, window, batch, ok, call, exc, warned,
                   running, disk, lockVars, bridgeVars, clock, turns, removed,
                   given, lock, _ACTIVE_MAX>>

\* lock = _SESSION_LOCKS.get(session_id); if lock is None:
GlGet(t) ==
    /\ pc[t] = "gl_get"
    /\ lock' = [lock EXCEPT ![t] = SESSION_LOCKS[sess[t]]]
    /\ pc' = [pc EXCEPT ![t] =
                IF SESSION_LOCKS[sess[t]] = 0 THEN "gl_new" ELSE "gl_return"]
    /\ UNCHANGED <<sess, text, now, cap, window, batch, ok, call, exc, warned,
                   running, disk, lockVars, bridgeVars, clock, turns, removed,
                   given, guard, _ACTIVE_MAX>>

\* lock = asyncio.Lock()
GlNew(t) ==
    /\ pc[t] = "gl_new"
    /\ made[sess[t]] < MaxLocks
    /\ made' = [made EXCEPT ![sess[t]] = @ + 1]
    /\ lock' = [lock EXCEPT ![t] = made[sess[t]] + 1]
    /\ pc' = [pc EXCEPT ![t] = "gl_store"]
    /\ UNCHANGED <<sess, text, now, cap, window, batch, ok, call, exc, warned,
                   running, disk, SESSION_LOCKS, held, bridgeVars, clock, turns,
                   removed, given, guard, _ACTIVE_MAX>>

\* _SESSION_LOCKS[session_id] = lock
GlStore(t) ==
    /\ pc[t] = "gl_store"
    /\ SESSION_LOCKS' = [SESSION_LOCKS EXCEPT ![sess[t]] = lock[t]]
    /\ pc' = [pc EXCEPT ![t] = "gl_return"]
    /\ UNCHANGED <<sess, text, now, cap, window, batch, ok, call, exc, warned,
                   running, disk, made, held, bridgeVars, clock, turns, removed,
                   given, guardVars, _ACTIVE_MAX>>

\* return lock: the with block is left and the guard released, if this
\* thread holds it
GlReturn(t) ==
    /\ pc[t] = "gl_return"
    /\ guard' = IF guard = t THEN NoTask ELSE guard
    /\ pc' = [pc EXCEPT ![t] = "lk_enter"]
    /\ UNCHANGED <<sess, text, now, cap, window, batch, ok, call, exc, warned,
                   running, disk, lockVars, bridgeVars, clock, turns, removed,
                   given, lock, _ACTIVE_MAX>>

\* async with lock: the returned lock is free and is taken
LkEnter(t) ==
    /\ pc[t] = "lk_enter"
    /\ ~Taken(sess[t], lock[t])
    /\ pc' = [pc EXCEPT ![t] = "lk_cs"]
    /\ UNCHANGED <<sess, text, now, cap, window, batch, ok, call, exc, warned,
                   running, disk, lockVars, bridgeVars, clock, turns, removed,
                   given, guardVars, _ACTIVE_MAX>>

\* the body of load_window or save_window is done, the lock released
LkExit(t) ==
    /\ pc[t] = "lk_cs"
    /\ lock' = [lock EXCEPT ![t] = 0]
    /\ pc' = [pc EXCEPT ![t] = "idle"]
    /\ UNCHANGED <<sess, text, now, cap, window, batch, ok, call, exc, warned,
                   running, disk, lockVars, bridgeVars, clock, turns, removed,
                   given, guard, _ACTIVE_MAX>>

NextLock ==
    \E t \in Tasks :
      \/ GlCall(t)
      \/ GlWith(t)
      \/ GlGet(t)
      \/ GlNew(t)
      \/ GlStore(t)
      \/ GlReturn(t)
      \/ LkEnter(t)
      \/ LkExit(t)

SpecLock == Init /\ [][NextLock]_vars

\* C13: in every interleaving of the statements of concurrent
\* _get_session_lock calls at most one lock is created per session id, every
\* call returns the lock registered for its session, and no two callers are
\* inside the critical section of one session at a time.
C13_OneLockPerSession ==
    /\ \A s \in Sessions : made[s] <= 1
    /\ \A t \in Tasks :
         pc[t] \in {"lk_enter", "lk_cs"} =>
           (lock[t] # 0 /\ lock[t] = SESSION_LOCKS[sess[t]])
    /\ \A t \in Tasks, o \in Tasks :
         (t # o /\ pc[t] = "lk_cs" /\ pc[o] = "lk_cs") => sess[t] # sess[o]

\* one caller is inside the critical section of a session and another one,
\* holding the same lock object, waits to enter it
C13_Witness ==
    \E t \in Tasks, o \in Tasks :
      /\ t # o
      /\ sess[t] = sess[o]
      /\ pc[t] = "lk_cs"
      /\ pc[o] = "lk_enter"
      /\ lock[t] = lock[o]
      /\ lock[t] # 0

(***************************************************************************)
(* One session processed by sequential turn cycles that keep arriving,     *)
(* with the capacity the host is configured with                           *)
(***************************************************************************)
InitLive ==
    /\ _ACTIVE_MAX \in Capacities
    /\ mem0_config \in ConfigValues
    /\ pc = [t \in Tasks |-> "idle"]
    /\ sess = [t \in Tasks |-> SidColon]
    /\ text = [t \in Tasks |-> <<"", "">>]
    /\ now = [t \in Tasks |-> ""]
    /\ cap = [t \in Tasks |-> 0]
    /\ window = [t \in Tasks |-> <<>>]
    /\ batch = [t \in Tasks |-> <<>>]
    /\ ok = [t \in Tasks |-> FALSE]
    /\ call = [t \in Tasks |-> "none"]
    /\ exc = [t \in Tasks |-> "none"]
    /\ warned = [t \in Tasks |-> FALSE]
    /\ running = NoTask
    /\ disk = [p \in Paths |-> NoFile]
    /\ SESSION_LOCKS = [s \in Sessions |-> 0]
    /\ made = [s \in Sessions |-> 0]
    /\ held = [s \in Sessions |-> NoTask]
    /\ mem0_instance = "None"
    /\ mem = {}
    /\ clock = 1
    /\ turns = 0
    /\ removed = {}
    /\ given = <<>>
    /\ guard = NoTask
    /\ lock = [t \in Tasks |-> 0]

\* the next turn of the session arrives; the capacity is the configured one
LiveStartTurn(t) ==
    /\ pc[t] = "idle"
    /\ running = NoTask
    /\ \E u \in TurnUsers, a \in Assistants :
         text' = [text EXCEPT ![t] = <<u, a>>]
    /\ cap' = [cap EXCEPT ![t] = _ACTIVE_MAX]
    /\ pc' = [pc EXCEPT ![t] = "load"]
    /\ window' = [window EXCEPT ![t] = <<>>]
    /\ batch' = [batch EXCEPT ![t] = <<>>]
    /\ ok' = [ok EXCEPT ![t] = FALSE]
    /\ call' = [call EXCEPT ![t] = "none"]
    /\ exc' = [exc EXCEPT ![t] = "none"]
    /\ warned' = [warned EXCEPT ![t] = FALSE]
    /\ now' = [now EXCEPT ![t] = ""]
    /\ running' = t
    /\ UNCHANGED <<sess, disk, lockVars, bridgeVars, clock, turns, removed,
                   given, guardVars, _ACTIVE_MAX>>

\* the awaited _add; the backend fails only while the window is short of
\* MaxLen entries, so that its add succeeds in the end
LiveAddDone(t) ==
    /\ AddDone(t)
    /\ ok'[t] \/ Len(window[t]) < MaxLen

NextLive ==
    \/ LiveStartTurn(FnTask)
    \/ LoadWindow(FnTask)
    \/ AppendTurn(FnTask)
    \/ Slide(FnTask)
    \/ SkipPromotion(FnTask)
    \/ AddFromPending(FnTask)
    \/ LiveAddDone(FnTask)
    \/ Remove(FnTask)
    \/ KeepPending(FnTask)
    \/ SaveBegin(FnTask)
    \/ SaveEnd(FnTask)

\* the event loop keeps running the turn and turns keep arriving
SpecLive == InitLive /\ [][NextLive]_vars /\ WF_vars(NextLive)

LiveEntries ==
    {ShortTermEntry("pending", u, a, Iso(n)) :
       u \in TurnUsers, a \in Assistants, n \in 1..MaxClock}

\* slide_and_collect_pending has returned and e is a pending entry
IsPending(e) ==
    /\ pc[FnTask] = "slid"
    /\ \E i \in DOMAIN window[FnTask] : window[FnTask][i] = e

\* the window about to be saved has no entry with the tuple of e
IsGone(e) ==
    /\ pc[FnTask] = "tosave"
    /\ Ident(e) \notin Idents(window[FnTask])

\* C17: with a fixed capacity, turns that keep arriving and a backend whose
\* add succeeds in the end, every entry that is pending after a slide is
\* later removed from the window.
C17_EventualPromotion ==
    \A e \in LiveEntries : IsPending(e) ~> IsGone(e)

\* entries left pending by a failed add are removed together with a newer
\* one after the add of a later turn succeeded
C17_Witness ==
    /\ pc[FnTask] = "tosave"
    /\ call[FnTask] = "returned"
    /\ Len(batch[FnTask]) > 1
    /\ PendingOf(Persisted(sess[FnTask])) # <<>>
    /\ Idents(batch[FnTask]) \cap Idents(window[FnTask]) = {}

====
